---- MODULE Spec2Model ----
(***************************************************************************)
(* Food-label backend: the session store (sessionManager over node-cache)  *)
(* and the request handlers of server.js (/api/analyze, /api/chat,         *)
(* /api/tts) together with the gateways they await (aiService,             *)
(* ttsService).                                                            *)
(*                                                                         *)
(* Time is Date.now() in milliseconds.  A handler runs atomically from the *)
(* arrival of the request (or the resolution of the promise it awaits) to  *)
(* its next await or to its response; the clock, the cache's sweep timer   *)
(* and direct calls of the store interleave at the awaits.  Requests are   *)
(* those the body parsers of express accept.                               *)
(***************************************************************************)
EXTENDS Integers, Sequences, FiniteSets

(***************************************************************************)
(* Bounds of the model.                                                    *)
(***************************************************************************)
\* The clock runs for MaxPeriods sweep periods of the cache.
MaxPeriods == 4

\* The requests that can be in flight together.
Requests == {"r1"}

\* The identifiers uuidv4 can produce, and a client can send.
SessionIds == {"s1", "s2"}

(***************************************************************************)
(* JavaScript values.                                                      *)
(***************************************************************************)
\* A missing property, header or variable.
Undefined == "<undefined>"

\* A value that is not a string (a JSON number sent where text is expected).
NonString == "<number>"

\* !v for the string-or-undefined values of the model.
Falsy(v) == v \in {Undefined, ""}

(***************************************************************************)
(* sessionManager: a NodeCache with stdTTL 15 min, checkperiod 5 min.      *)
(***************************************************************************)
\* stdTTL and checkperiod are in seconds.
stdTTL == 15 * 60

checkperiod == 5 * 60

\* NodeCache._check: a record is expired when its expiry time t is in the past.
Expired(rec, time) == rec.t < time

\* storeAnalysis with one shared record: every key gets the new record.
storeAnalysis_Clobber(cache, time, sessionId, analysis) ==
    [k \in DOMAIN cache \cup {sessionId} |->
        [analysis |-> analysis, timestamp |-> time, t |-> time + stdTTL * 1000]]

\* NodeCache.set through storeAnalysis: the record {analysis, timestamp} with
\* the expiry time now + stdTTL * 1000; an existing key is overwritten.
storeAnalysis(cache, time, sessionId, analysis) ==
    [k \in DOMAIN cache \cup {sessionId} |->
        IF k = sessionId
        THEN [analysis |-> analysis, timestamp |-> time, t |-> time + stdTTL * 1000]
        ELSE cache[k]]

\* The undefined NodeCache.get returns for a key that is absent or expired.
NoRecord == [found |-> FALSE]

\* getAnalysis that relies on the sweep alone: no expiry check on read.
getAnalysis_NoExpiry(cache, time, sessionId) ==
    IF sessionId \in DOMAIN cache
    THEN [found |-> TRUE,
          analysis |-> cache[sessionId].analysis,
          timestamp |-> cache[sessionId].timestamp]
    ELSE NoRecord

\* getAnalysis that falls back to some live session for an unknown key.
getAnalysis_AnySession(cache, time, sessionId) ==
    LET live == {k \in DOMAIN cache : ~Expired(cache[k], time)}
        key == IF sessionId \in live \/ live = {} THEN sessionId
               ELSE CHOOSE k \in live : TRUE
    IN  IF key \in live
        THEN [found |-> TRUE,
              analysis |-> cache[key].analysis,
              timestamp |-> cache[key].timestamp]
        ELSE NoRecord

\* What NodeCache.get returns: the stored value {analysis, timestamp}, or
\* undefined when the key is absent or expired.
getAnalysis(cache, time, sessionId) ==
    IF sessionId \in DOMAIN cache /\ ~Expired(cache[sessionId], time)
    THEN [found |-> TRUE,
          analysis |-> cache[sessionId].analysis,
          timestamp |-> cache[sessionId].timestamp]
    ELSE NoRecord

\* hasSession that looks for the key only, without the expiry check.
hasSession_NoExpiry(cache, time, sessionId) == sessionId \in DOMAIN cache

\* What NodeCache.has returns.
hasSession(cache, time, sessionId) ==
    sessionId \in DOMAIN cache /\ ~Expired(cache[sessionId], time)

\* A lookup with a sliding TTL: a live record's expiry time is renewed.
AfterLookup_Sliding(cache, time, sessionId) ==
    IF sessionId \notin DOMAIN cache THEN cache
    ELSE IF Expired(cache[sessionId], time)
    THEN [k \in DOMAIN cache \ {sessionId} |-> cache[k]]
    ELSE [cache EXCEPT ![sessionId].t = time + stdTTL * 1000]

\* A lookup that stamps the record it finds with the time of the read.
AfterLookup_Restamp(cache, time, sessionId) ==
    IF sessionId \notin DOMAIN cache THEN cache
    ELSE IF Expired(cache[sessionId], time)
    THEN [k \in DOMAIN cache \ {sessionId} |-> cache[k]]
    ELSE [cache EXCEPT ![sessionId].timestamp = time]

\* A lookup that renews the expired record it finds instead of deleting it.
AfterLookup_Revive(cache, time, sessionId) ==
    IF sessionId \in DOMAIN cache /\ Expired(cache[sessionId], time)
    THEN [cache EXCEPT ![sessionId].t = time + stdTTL * 1000]
    ELSE cache

\* The cache after get or has looked a key up: _check deletes the key it finds
\* expired (deleteOnExpire).
AfterLookup(cache, time, sessionId) ==
    IF sessionId \in DOMAIN cache /\ Expired(cache[sessionId], time)
    THEN [k \in DOMAIN cache \ {sessionId} |-> cache[k]]
    ELSE cache

\* NodeCache._checkData, the periodic sweep: _check on every key.
AfterSweep(cache, time) ==
    [k \in {j \in DOMAIN cache : ~Expired(cache[j], time)} |-> cache[k]]

(***************************************************************************)
(* Text.  A string is a sequence of tokens; " " is white space.            *)
(***************************************************************************)
RECURSIVE TrimLeft(_)
TrimLeft(s) == IF s # <<>> /\ Head(s) = " " THEN TrimLeft(Tail(s)) ELSE s

RECURSIVE TrimRight(_)
TrimRight(s) ==
    IF s # <<>> /\ s[Len(s)] = " " THEN TrimRight(SubSeq(s, 1, Len(s) - 1)) ELSE s

\* String.prototype.trim
Trim(s) == TrimLeft(TrimRight(s))

\* String.prototype.includes, for a one-token needle.
Includes(s, word) == \E i \in 1..Len(s) : s[i] = word

\* Array.prototype.join(', ')
RECURSIVE Join(_)
Join(items) ==
    IF items = <<>> THEN <<>>
    ELSE IF Len(items) = 1 THEN <<items[1]>>
    ELSE <<items[1], ", ">> \o Join(Tail(items))

\* Number to string, for the calorie counts of the model.
NumToStr(n) == CASE n = 200 -> "200" [] n = 90 -> "90" [] OTHER -> "0"

(***************************************************************************)
(* What the external models answer.                                        *)
(***************************************************************************)
\* ingredients as the vision model may send it: absent, an array, or text.
NoIngredients == [type |-> "undefined", items |-> <<>>]

IngredientList == [type |-> "array", items |-> <<"sugar", "cocoa">>]

IngredientText == [type |-> "string", items |-> <<"sugar, cocoa">>]

\* A JSON object of the vision model, with the fields the program reads.
JsonObject(isError, error, productName, ingredients, calories) ==
    [j |-> "object", isError |-> isError, error |-> error,
     productName |-> productName, ingredients |-> ingredients,
     calories |-> calories]

\* The label analyses the vision model may send (isError false, no error).
Analyses ==
    { JsonObject(FALSE, Undefined, "Choco Bar", IngredientList, 200),
      JsonObject(FALSE, Undefined, "", NoIngredients, 0),
      JsonObject(FALSE, Undefined, "Choco Bar", IngredientText, 0) }

\* The error answers the prompt asks for when the image is no readable food
\* label, with either or both of isError and error set.
ErrorMessage == "I couldn't read the food label clearly."

ErrorAnswers ==
    { JsonObject(TRUE, ErrorMessage, "", NoIngredients, 0),
      JsonObject(TRUE, Undefined, "", NoIngredients, 0),
      JsonObject(FALSE, ErrorMessage, "", NoIngredients, 0) }

\* The texts JSON.parse is given: not JSON, the literal null, or an object.
JsonTexts ==
    { [j |-> "garbage"], [j |-> "null"] } \cup ErrorAnswers \cup Analyses

\* message.content of the vision model: the JSON text, possibly inside a
\* markdown code fence.  open is what precedes the text: nothing, the fence
\* line "(fence)json" with its newline, a bare fence line with its newline,
\* or "(fence)json" without a newline; close is nothing or newline and fence.
Content(open, text, close) == [open |-> open, text |-> text, close |-> close]

\* Every text bare, and one analysis and one error answer in every fence.
Contents ==
    { Content("", text, "") : text \in JsonTexts } \cup
    { Content(open, text, close) :
        open \in {"FENCE_JSON_NL", "FENCE_NL", "FENCE_JSON"},
        text \in { JsonObject(FALSE, Undefined, "Choco Bar", IngredientList, 200),
                   JsonObject(TRUE, ErrorMessage, "", NoIngredients, 0) },
        close \in {"NL_FENCE"} }

\* Outcomes of openai.chat.completions.create for the vision call: the call
\* rejects, answers without choices, without content, or with content.
VisionAnswers ==
    { [call |-> "reject"], [call |-> "ok", choices |-> 0],
      [call |-> "ok", choices |-> 1, hasContent |-> FALSE] }
    \cup { [call |-> "ok", choices |-> 1, hasContent |-> TRUE, content |-> c] :
            c \in Contents }

\* Outcomes of openai.chat.completions.create for summary and follow-up.
GatewayText == "LLM_TEXT"

ChatAnswers ==
    { [call |-> "reject"], [call |-> "ok", choices |-> 0] }
    \cup { [call |-> "ok", choices |-> 1, content |-> c] :
            c \in { <<" ">>, <<" ", GatewayText, " ">>, <<GatewayText>> } }

\* Outcomes of openai.audio.speech.create.
SpeechAnswers == { [call |-> "reject"], [call |-> "ok"] }

(***************************************************************************)
(* aiService and ttsService: the gateways.                                 *)
(***************************************************************************)
\* Buffer.toString('base64'): the length of the encoding of n bytes.
Base64Length(n) == 4 * ((n + 2) \div 3)

\* String.prototype.startsWith('image/') on the MIME types of the model.
StartsWithImage(mimeType) ==
    mimeType \in {"image/jpeg", "image/png", "image/gif", "image/webp", "image/bmp"}

\* analyzeImage up to its outbound call: the two checks that throw before it.
\* TRUE when the request is sent to the vision model.
AnalyzeImageSends(base64Length, mimeType) ==
    /\ base64Length # 0
    /\ ~Falsy(mimeType) /\ StartsWithImage(mimeType)

\* The catch of analyzeImage: every throw becomes this result.
AnalyzeFailure(details) ==
    [success |-> FALSE, error |-> "Failed to analyze image", details |-> details]

\* The two replace calls that remove a markdown code fence from the content.
StripFence(content) ==
    IF content.open \in {"FENCE_JSON_NL", "FENCE_JSON"}
    THEN [content EXCEPT !.open = IF @ = "FENCE_JSON_NL" THEN "" ELSE @,
                         !.close = ""]
    ELSE IF content.open = "FENCE_NL"
    THEN [content EXCEPT !.open = "", !.close = ""]
    ELSE content

\* JSON.parse accepts the text: no fence is left around it and it is JSON.
Parses(content) ==
    content.open = "" /\ content.close = "" /\ content.text.j # "garbage"

\* analyzeImage that tests the isError flag only, not the error field.
AnalyzeImageResult_FlagOnly(answer) ==
    IF answer.call = "reject" THEN AnalyzeFailure("request failed")
    ELSE IF answer.choices = 0 THEN AnalyzeFailure("No choices in API response")
    ELSE IF ~answer.hasContent
    THEN AnalyzeFailure("Invalid message format in API response")
    ELSE LET content == StripFence(answer.content)
             analysis == content.text
         IN  IF ~Parses(content) \/ analysis.j = "null"
             THEN AnalyzeFailure("Failed to parse API response")
             ELSE IF analysis.isError
             THEN [success |-> FALSE,
                   error |-> "Failed to analyze the food label",
                   details |-> "The model could not process the image as a food label"]
             ELSE [success |-> TRUE, analysis |-> analysis]

\* analyzeImage from the answer of the vision model to its result.
AnalyzeImageResult(answer) ==
    IF answer.call = "reject" THEN AnalyzeFailure("request failed")
    ELSE IF answer.choices = 0 THEN AnalyzeFailure("No choices in API response")
    ELSE IF ~answer.hasContent
    THEN AnalyzeFailure("Invalid message format in API response")
    ELSE LET content == StripFence(answer.content)
             analysis == content.text
         IN  IF ~Parses(content) \/ analysis.j = "null"
             THEN AnalyzeFailure("Failed to parse API response")
             ELSE IF analysis.isError \/ ~Falsy(analysis.error)
             THEN [success |-> FALSE,
                   error |-> IF Falsy(analysis.error)
                             THEN "Failed to analyze the food label"
                             ELSE analysis.error,
                   details |-> "The model could not process the image as a food label"]
             ELSE [success |-> TRUE, analysis |-> analysis]

\* generateSummary from the answer of the language model to its result.
generateSummary(answer) ==
    IF answer.call = "ok" /\ answer.choices > 0
    THEN [success |-> TRUE, summary |-> Trim(answer.content)]
    ELSE [success |-> FALSE, error |-> "Failed to generate summary"]

\* handleFollowUp from the answer of the language model to its result.
handleFollowUp(answer) ==
    IF answer.call = "ok" /\ answer.choices > 0
    THEN [success |-> TRUE, response |-> Trim(answer.content)]
    ELSE [success |-> FALSE, error |-> "Failed to process follow-up question"]

\* String.prototype.toLowerCase on the voices of the model.
ToLowerCase(voice) == IF voice = "NOVA" THEN "nova" ELSE voice

\* ttsService.generateSpeech up to its outbound call: voice.toLowerCase()
\* throws on a voice that is no string.  TRUE when the request is sent to the
\* speech model.
GenerateSpeechSends(text, voice) == ~Falsy(text) /\ voice # NonString

\* ttsService.generateSpeech from the answer of the speech model to its
\* outcome: the audio buffer is returned, or the catch throws a new Error.
generateSpeech(answer) ==
    IF answer.call = "ok"
    THEN [audio |-> TRUE]
    ELSE [raised |-> TRUE, message |-> "Failed to generate speech"]

\* The voices the documentation of generateSpeech enumerates.
validVoices == {"alloy", "echo", "fable", "onyx", "nova", "shimmer"}

(***************************************************************************)
(* server.js: uploads, responses and the summary fallback.                 *)
(***************************************************************************)
SUPPORTED_IMAGE_TYPES == {"image/jpeg", "image/png", "image/gif", "image/webp"}

\* limits.fileSize of the upload middleware, in bytes.
fileSize == 10 * 1024 * 1024

\* The multipart field "image" as a client may send it.
NoFile == [present |-> FALSE]

Uploads ==
    {NoFile} \cup
    [present : {TRUE}, mimetype : {"image/png", "text/plain"},
     size : {0, 3, fileSize + 1}]

\* An upload middleware that passes every file on.
UploadAccepted_All(file) == TRUE

\* upload.single('image'): the fileFilter and the size limit pass the file on
\* to the handler; a rejected file is an error handed to the error middleware.
UploadAccepted(file) ==
    file.present => /\ file.mimetype \in SUPPORTED_IMAGE_TYPES
                    /\ file.size <= fileSize

Response(status, body) == [status |-> status, body |-> body]

NoResponse == [status |-> 0]

\* The error-handling middleware.
ErrorMiddleware ==
    Response(500, [success |-> FALSE, error |-> "Internal server error"])

\* The fallback of /api/analyze throws when ingredients is neither absent nor
\* an array: it has no join method.
FallbackRaises(analysis) == analysis.ingredients.type \notin {"undefined", "array"}

\* The summary /api/analyze builds from the structured fields.
FallbackSummary(analysis) ==
    LET product == IF Falsy(analysis.productName)
                   THEN "This product" ELSE analysis.productName
        joined == IF analysis.ingredients.type = "array"
                  THEN Join(analysis.ingredients.items) ELSE <<>>
        ingredients == IF joined = <<>> THEN <<"various ingredients">> ELSE joined
    IN  <<product, " contains ">> \o ingredients \o <<". ">> \o
        (IF analysis.calories # 0
         THEN <<"It has approximately ", NumToStr(analysis.calories),
                " calories per serving.">>
         ELSE <<>>)

\* The summary string of /api/analyze, from the result of generateSummary.
AnalyzeSummary(analysis, summaryResult) ==
    IF summaryResult.success /\ summaryResult.summary # <<>>
    THEN summaryResult.summary
    ELSE IF FallbackRaises(analysis)
    THEN <<"Analysis complete. Ask me anything about this product.">>
    ELSE FallbackSummary(analysis)

\* An identifier generator that may return an identifier again.
generateSessionId_Any(used) == SessionIds

\* uuidv4: an identifier no earlier call returned.
generateSessionId(used) == SessionIds \ used

(***************************************************************************)
(* State.                                                                  *)
(***************************************************************************)
VARIABLES
    now,        \* Date.now()
    data,       \* sessionCache.data: key -> [analysis, timestamp, t]
    nextCheck,  \* when the sweep timer of the cache is due
    created,    \* history: key -> the analysis stored under it and when
    req,        \* the requests in flight: position, inputs, locals, the calls
                \* made and the answers the outbound calls got
    sent        \* the response the last step sent, with the request it answers

vars == <<now, data, nextCheck, created, req, sent>>

NoAnalysis == [j |-> "none"]

\* A request slot that holds no request.
Idle ==
    [kind |-> "none", pc |-> "idle", input |-> [none |-> TRUE],
     sessionId |-> Undefined, analysis |-> NoAnalysis, calls |-> <<>>,
     got |-> <<>>]

NothingSent ==
    [r |-> "none", kind |-> "none", input |-> [none |-> TRUE], calls |-> <<>>,
     got |-> <<>>, res |-> NoResponse]

Init ==
    /\ now = 0
    /\ data = [k \in {} |-> NoRecord]
    /\ nextCheck = checkperiod * 1000
    /\ created = [k \in {} |-> NoRecord]
    /\ req = [r \in Requests |-> Idle]
    /\ sent = NothingSent

\* A send after which the handler goes on as if nothing had been sent.
Respond_KeepGoing(r, slot, status, body) ==
    /\ req' = [req EXCEPT ![r] =
                  IF req[r].pc = "idle" THEN [slot EXCEPT !.pc = "sent"] ELSE req[r]]
    /\ sent' = [r |-> r, kind |-> slot.kind, input |-> slot.input,
                calls |-> slot.calls, got |-> slot.got,
                res |-> Response(status, body)]

\* res.status(status).json(body): the response goes out and the request ends.
Respond(r, slot, status, body) ==
    /\ req' = [req EXCEPT ![r] = Idle]
    /\ sent' = [r |-> r, kind |-> slot.kind, input |-> slot.input,
                calls |-> slot.calls, got |-> slot.got,
                res |-> Response(status, body)]

\* The handler suspends at an await; the step sends nothing.
Await(r, slot) ==
    /\ req' = [req EXCEPT ![r] = slot]
    /\ sent' = NothingSent

(***************************************************************************)
(* POST /api/analyze                                                       *)
(***************************************************************************)
\* The request arrives: upload middleware, the check of req.file, and
\* analyzeImage up to its outbound call.
AnalyzeReceive(r, file) ==
    /\ req[r].pc = "idle"
    /\ LET slot == [Idle EXCEPT !.kind = "analyze", !.input = file]
       IN  IF ~UploadAccepted(file)
           THEN Respond(r, slot, ErrorMiddleware.status, ErrorMiddleware.body)
           ELSE IF ~file.present
           THEN Respond(r, slot, 400,
                  [success |-> FALSE,
                   error |-> "No file uploaded or unsupported file type"])
           ELSE IF ~AnalyzeImageSends(Base64Length(file.size), file.mimetype)
           THEN Respond(r, [slot EXCEPT !.calls = <<"analyzeImage">>], 500,
                  AnalyzeFailure("Invalid image data"))
           ELSE Await(r, [slot EXCEPT
                            !.pc = "awaitAnalyze",
                            !.calls = <<"analyzeImage", "chat.completions.create">>])
    /\ UNCHANGED <<now, data, nextCheck, created>>

\* analyzeImage returns a failure: the handler answers 500.
AnalyzeFail(r, answer) ==
    /\ req[r].pc = "awaitAnalyze"
    /\ LET analysisResult == AnalyzeImageResult(answer)
       IN  /\ ~analysisResult.success
           /\ Respond(r, [req[r] EXCEPT !.got = <<answer>>], 500, analysisResult)
    /\ UNCHANGED <<now, data, nextCheck, created>>

\* analyzeImage returns an analysis: the handler generates a session
\* identifier, stores the analysis and calls generateSummary.
AnalyzeStore(r, answer) ==
    /\ req[r].pc = "awaitAnalyze"
    /\ LET analysisResult == AnalyzeImageResult(answer)
       IN  /\ analysisResult.success
           /\ \E sessionId \in generateSessionId(DOMAIN created) :
                /\ data' = storeAnalysis(data, now, sessionId, analysisResult.analysis)
                /\ created' =
                     [k \in DOMAIN created \cup {sessionId} |->
                        IF k = sessionId
                        THEN [analysis |-> analysisResult.analysis, at |-> now]
                        ELSE created[k]]
                /\ Await(r, [req[r] EXCEPT
                               !.pc = "awaitSummary",
                               !.sessionId = sessionId,
                               !.analysis = analysisResult.analysis,
                               !.got = <<answer>>,
                               !.calls = @ \o <<"storeAnalysis", "generateSummary",
                                                "chat.completions.create">>])
    /\ UNCHANGED <<now, nextCheck>>

\* /api/analyze that answers a failed generateSummary with a 500.
AnalyzeRespond_FailOnSummary(r, answer) ==
    /\ req[r].pc = "awaitSummary"
    /\ LET summaryResult == generateSummary(answer)
       IN  IF ~summaryResult.success
           THEN Respond(r, [req[r] EXCEPT !.got = @ \o <<answer>>], 500,
                  [success |-> FALSE, error |-> "Failed to process image"])
           ELSE Respond(r, [req[r] EXCEPT !.got = @ \o <<answer>>], 200,
                  [success |-> TRUE, sessionId |-> req[r].sessionId,
                   summary |-> AnalyzeSummary(req[r].analysis, summaryResult),
                   hasAnalysis |-> TRUE, analysis |-> req[r].analysis])
    /\ UNCHANGED <<now, data, nextCheck, created>>

\* generateSummary returns: the handler picks the summary and answers 200.
AnalyzeRespond(r, answer) ==
    /\ req[r].pc = "awaitSummary"
    /\ LET summary == AnalyzeSummary(req[r].analysis, generateSummary(answer))
       IN  Respond(r, [req[r] EXCEPT !.got = @ \o <<answer>>], 200,
             [success |-> TRUE, sessionId |-> req[r].sessionId,
              summary |-> summary, hasAnalysis |-> TRUE,
              analysis |-> req[r].analysis])
    /\ UNCHANGED <<now, data, nextCheck, created>>

(***************************************************************************)
(* POST /api/chat                                                          *)
(***************************************************************************)
\* A missing session answered like any other failure of the handler.
SessionNotFound_Generic ==
    Response(500, [success |-> FALSE, error |-> "Failed to process request"])

\* The answer of /api/chat when getAnalysis returns nothing.
SessionNotFound ==
    Response(404,
      [success |-> FALSE,
       error |-> "Session not found or expired. Please scan the product again."])

\* validateSession that passes every request on.
validateSession_PassAll(header) == TRUE

\* validateSession: TRUE when the request is passed on to the handler.
validateSession(header) == ~Falsy(header)

\* A dispatch on the isFollowUp flag alone.
IsFollowUpRequest_FlagOnly(isFollowUp, message) == isFollowUp

\* The test that sends a chat request to handleFollowUp: isFollowUp && message.
IsFollowUpRequest(isFollowUp, message) == isFollowUp /\ ~Falsy(message)

\* The request arrives: validateSession, the lookup of the session, and the
\* gateway call up to its outbound call.
ChatReceive(r, header, isFollowUp, message) ==
    /\ req[r].pc = "idle"
    /\ LET slot == [Idle EXCEPT !.kind = "chat",
                                !.input = [header |-> header,
                                           isFollowUp |-> isFollowUp,
                                           message |-> message]]
           looked == [slot EXCEPT !.sessionId = header, !.calls = <<"getAnalysis">>]
           sessionData == getAnalysis(data, now, header)
       IN  IF ~validateSession(header)
           THEN /\ Respond(r, slot, 400,
                     [success |-> FALSE,
                      error |-> "Session ID is required in X-Session-ID header"])
                /\ data' = data
           ELSE /\ data' = AfterLookup(data, now, header)
                /\ IF ~sessionData.found
                   THEN Respond(r, looked, SessionNotFound.status,
                                SessionNotFound.body)
                   ELSE IF IsFollowUpRequest(isFollowUp, message)
                   THEN Await(r, [looked EXCEPT
                                    !.pc = "awaitFollowUp",
                                    !.analysis = sessionData.analysis,
                                    !.calls = @ \o <<"handleFollowUp",
                                                     "chat.completions.create">>])
                   ELSE Await(r, [looked EXCEPT
                                    !.pc = "awaitChatSummary",
                                    !.analysis = sessionData.analysis,
                                    !.calls = @ \o <<"generateSummary",
                                                     "chat.completions.create">>])
    /\ UNCHANGED <<now, nextCheck, created>>

\* The 500 of the catch of /api/chat.
ChatFailure(details) ==
    [success |-> FALSE, error |-> "Failed to process request", details |-> details]

\* /api/chat that issues a failed follow-up call a second time.
ChatFollowUpRespond_Retry(r, answer) ==
    /\ req[r].pc = "awaitFollowUp"
    /\ LET followUpResult == handleFollowUp(answer)
       IN  IF ~followUpResult.success /\ Len(req[r].got) = 0
           THEN Await(r, [req[r] EXCEPT
                            !.got = <<answer>>,
                            !.calls = @ \o <<"chat.completions.create">>])
           ELSE IF ~followUpResult.success
           THEN Respond(r, [req[r] EXCEPT !.got = @ \o <<answer>>], 500,
                  ChatFailure(followUpResult.error))
           ELSE Respond(r, [req[r] EXCEPT !.got = @ \o <<answer>>], 200,
                  [success |-> TRUE, response |-> followUpResult.response,
                   isFollowUp |-> TRUE])
    /\ UNCHANGED <<now, data, nextCheck, created>>

\* handleFollowUp returns.
ChatFollowUpRespond(r, answer) ==
    /\ req[r].pc = "awaitFollowUp"
    /\ LET followUpResult == handleFollowUp(answer)
       IN  IF ~followUpResult.success
           THEN Respond(r, [req[r] EXCEPT !.got = <<answer>>], 500,
                  ChatFailure(followUpResult.error))
           ELSE Respond(r, [req[r] EXCEPT !.got = <<answer>>], 200,
                  [success |-> TRUE, response |-> followUpResult.response,
                   isFollowUp |-> TRUE])
    /\ UNCHANGED <<now, data, nextCheck, created>>

\* /api/chat with the fallback of /api/analyze: a failed generateSummary is
\* answered with a summary built from the stored analysis.
ChatSummaryRespond_Fallback(r, answer) ==
    /\ req[r].pc = "awaitChatSummary"
    /\ LET summaryResult == generateSummary(answer)
       IN  Respond(r, [req[r] EXCEPT !.got = <<answer>>], 200,
             [success |-> TRUE,
              response |-> AnalyzeSummary(req[r].analysis, summaryResult),
              isFollowUp |-> FALSE])
    /\ UNCHANGED <<now, data, nextCheck, created>>

\* generateSummary returns to /api/chat.
ChatSummaryRespond(r, answer) ==
    /\ req[r].pc = "awaitChatSummary"
    /\ LET summaryResult == generateSummary(answer)
       IN  IF ~summaryResult.success
           THEN Respond(r, [req[r] EXCEPT !.got = <<answer>>], 500,
                  ChatFailure(summaryResult.error))
           ELSE Respond(r, [req[r] EXCEPT !.got = <<answer>>], 200,
                  [success |-> TRUE, response |-> summaryResult.summary,
                   isFollowUp |-> FALSE])
    /\ UNCHANGED <<now, data, nextCheck, created>>

(***************************************************************************)
(* POST /api/tts                                                           *)
(***************************************************************************)
\* The bodies a client may send: text and voice.
Texts == {"", "hello"}

Voices == {Undefined, "alloy", "NOVA", "invalid", NonString}

\* The request arrives: the default voice, the check of text, and
\* generateSpeech up to its outbound call.
TtsReceive(r, text, voiceSent) ==
    /\ req[r].pc = "idle"
    /\ LET voice == IF voiceSent = Undefined THEN "alloy" ELSE voiceSent
           slot == [Idle EXCEPT !.kind = "tts",
                                !.input = [text |-> text, voice |-> voice]]
       IN  IF Falsy(text)
           THEN Respond(r, slot, 400, [error |-> "Text is required"])
           ELSE IF ~GenerateSpeechSends(text, voice)
           THEN Respond(r, [slot EXCEPT !.calls = <<"generateSpeech">>], 500,
                  [error |-> "Failed to generate speech",
                   details |-> "Failed to generate speech"])
           ELSE Await(r, [slot EXCEPT
                            !.pc = "awaitSpeech",
                            !.calls = <<"generateSpeech", "audio.speech.create">>])
    /\ UNCHANGED <<now, data, nextCheck, created>>

\* generateSpeech returns or throws: the audio is sent, or the catch of the
\* handler answers 500.
TtsRespond(r, answer) ==
    /\ req[r].pc = "awaitSpeech"
    /\ LET audioBuffer == generateSpeech(answer)
       IN  IF "raised" \notin DOMAIN audioBuffer
           THEN Respond(r, [req[r] EXCEPT !.got = <<answer>>], 200, audioBuffer)
           ELSE Respond(r, [req[r] EXCEPT !.got = <<answer>>], 500,
                  [error |-> "Failed to generate speech",
                   details |-> audioBuffer.message])
    /\ UNCHANGED <<now, data, nextCheck, created>>

(***************************************************************************)
(* The clock, the sweep timer, and direct calls of the store.              *)
(***************************************************************************)
MaxTime == MaxPeriods * checkperiod * 1000

\* Time passes until the sweep timer is due.
Tick ==
    /\ now < nextCheck
    /\ nextCheck <= MaxTime
    /\ now' = nextCheck
    /\ sent' = NothingSent
    /\ UNCHANGED <<data, nextCheck, created, req>>

\* The sweep timer fires: expired records are deleted, the timer is set again.
Sweep ==
    /\ now >= nextCheck
    /\ data' = AfterSweep(data, now)
    /\ nextCheck' = now + checkperiod * 1000
    /\ sent' = NothingSent
    /\ UNCHANGED <<now, created, req>>

\* sessionManager.getAnalysis called on its own.
GetAnalysisCall(sessionId) ==
    /\ data' = AfterLookup(data, now, sessionId)
    /\ sent' = NothingSent
    /\ UNCHANGED <<now, nextCheck, created, req>>

\* sessionManager.hasSession called on its own.
HasSessionCall(sessionId) ==
    /\ data' = AfterLookup(data, now, sessionId)
    /\ sent' = NothingSent
    /\ UNCHANGED <<now, nextCheck, created, req>>

\* The X-Session-ID headers a client may send.
Headers == {Undefined, ""} \cup SessionIds

\* The message of a chat body; missing and empty are both falsy.
Messages == {"", "Is this vegan?"}

Next ==
    \/ \E r \in Requests, file \in Uploads : AnalyzeReceive(r, file)
    \/ \E r \in Requests, answer \in VisionAnswers : AnalyzeFail(r, answer)
    \/ \E r \in Requests, answer \in VisionAnswers : AnalyzeStore(r, answer)
    \/ \E r \in Requests, answer \in ChatAnswers : AnalyzeRespond(r, answer)
    \/ \E r \in Requests, header \in Headers, isFollowUp \in BOOLEAN,
          message \in Messages : ChatReceive(r, header, isFollowUp, message)
    \/ \E r \in Requests, answer \in ChatAnswers : ChatFollowUpRespond(r, answer)
    \/ \E r \in Requests, answer \in ChatAnswers : ChatSummaryRespond(r, answer)
    \/ \E r \in Requests, text \in Texts, voice \in Voices : TtsReceive(r, text, voice)
    \/ \E r \in Requests, answer \in SpeechAnswers : TtsRespond(r, answer)
    \/ Tick
    \/ Sweep
    \/ \E sessionId \in SessionIds : GetAnalysisCall(sessionId)
    \/ \E sessionId \in SessionIds : HasSessionCall(sessionId)

Spec == Init /\ [][Next]_vars

(***************************************************************************)
(* Two requests in flight together: /api/analyze and /api/chat interleave  *)
(* at their awaits while the clock stands still.                           *)
(***************************************************************************)
ParRequests == {"r1", "r2"}

\* An accepted upload.
ParUploads == { [present |-> TRUE, mimetype |-> "image/png", size |-> 3] }

\* The vision call is rejected or answers with one of the analyses.
ParVisionAnswers ==
    { [call |-> "reject"] } \cup
    { [call |-> "ok", choices |-> 1, hasContent |-> TRUE,
       content |-> Content("", text, "")] : text \in Analyses }

\* The language model call is rejected or answers with text.
ParChatAnswers ==
    { [call |-> "reject"],
      [call |-> "ok", choices |-> 1, content |-> <<GatewayText>>] }

InitPar ==
    /\ now = 0
    /\ data = [k \in {} |-> NoRecord]
    /\ nextCheck = checkperiod * 1000
    /\ created = [k \in {} |-> NoRecord]
    /\ req = [r \in ParRequests |-> Idle]
    /\ sent = NothingSent

NextPar ==
    \/ \E r \in ParRequests, file \in ParUploads : AnalyzeReceive(r, file)
    \/ \E r \in ParRequests, answer \in ParVisionAnswers : AnalyzeFail(r, answer)
    \/ \E r \in ParRequests, answer \in ParVisionAnswers : AnalyzeStore(r, answer)
    \/ \E r \in ParRequests, answer \in ParChatAnswers : AnalyzeRespond(r, answer)
    \/ \E r \in ParRequests, header \in SessionIds, isFollowUp \in BOOLEAN,
          message \in Messages : ChatReceive(r, header, isFollowUp, message)
    \/ \E r \in ParRequests, answer \in ParChatAnswers :
          ChatFollowUpRespond(r, answer)
    \/ \E r \in ParRequests, answer \in ParChatAnswers :
          ChatSummaryRespond(r, answer)

SpecPar == InitPar /\ [][NextPar]_vars

(***************************************************************************)
(* Termination: one request at a time with the clock running, over the     *)
(* answers of ParVisionAnswers and ParChatAnswers.  Every outbound call a  *)
(* handler awaits eventually resolves or rejects: the step that takes the  *)
(* answer of the call is weakly fair.                                      *)
(***************************************************************************)
\* No file, or an accepted upload.
LiveUploads == {NoFile} \cup ParUploads

\* A voice left out, and one that is no string.
LiveVoices == {Undefined, NonString}

NextLive ==
    \/ \E r \in Requests, file \in LiveUploads : AnalyzeReceive(r, file)
    \/ \E r \in Requests, answer \in ParVisionAnswers : AnalyzeFail(r, answer)
    \/ \E r \in Requests, answer \in ParVisionAnswers : AnalyzeStore(r, answer)
    \/ \E r \in Requests, answer \in ParChatAnswers : AnalyzeRespond(r, answer)
    \/ \E r \in Requests, header \in Headers, isFollowUp \in BOOLEAN,
          message \in Messages : ChatReceive(r, header, isFollowUp, message)
    \/ \E r \in Requests, answer \in ParChatAnswers :
          ChatFollowUpRespond(r, answer)
    \/ \E r \in Requests, answer \in ParChatAnswers :
          ChatSummaryRespond(r, answer)
    \/ \E r \in Requests, text \in Texts, voice \in LiveVoices :
          TtsReceive(r, text, voice)
    \/ \E r \in Requests, answer \in SpeechAnswers : TtsRespond(r, answer)
    \/ Tick
    \/ Sweep

OutboundCallsReturn ==
    \A r \in Requests :
        /\ WF_vars(\E answer \in ParVisionAnswers :
                     AnalyzeFail(r, answer) \/ AnalyzeStore(r, answer))
        /\ WF_vars(\E answer \in ParChatAnswers : AnalyzeRespond(r, answer))
        /\ WF_vars(\E answer \in ParChatAnswers : ChatFollowUpRespond(r, answer))
        /\ WF_vars(\E answer \in ParChatAnswers : ChatSummaryRespond(r, answer))
        /\ WF_vars(\E answer \in SpeechAnswers : TtsRespond(r, answer))

SpecLive == Init /\ [][NextLive]_vars /\ OutboundCallsReturn

(***************************************************************************)
(* Properties.                                                             *)
(***************************************************************************)
\* The requests in flight and the response just sent.
InFlight == {req[r] : r \in Requests}

Called(slot, op) == \E i \in 1..Len(slot.calls) : slot.calls[i] = op

\* When the session stored under id expires: creation time plus the TTL.
ExpiresAt(id) == created[id].at + stdTTL * 1000

\* C1: identity round-trip.  For every session stored by /api/analyze under
\* an identifier, getAnalysis on that identifier before the TTL has elapsed
\* returns a record whose analysis is exactly the one stored, whatever other
\* requests ran in between.
C1_RoundTrip ==
    \A id \in DOMAIN created :
        now < ExpiresAt(id)
        => /\ getAnalysis(data, now, id).found
           /\ getAnalysis(data, now, id).analysis = created[id].analysis

\* A later session with another analysis was stored and read by a chat request
\* while the earlier session is still within its TTL.
C1_Witness ==
    \E id \in DOMAIN created, other \in DOMAIN created :
        /\ created[other].at > created[id].at
        /\ created[other].analysis # created[id].analysis
        /\ now < ExpiresAt(id)
        /\ sent.kind = "chat" /\ sent.res.status = 200
        /\ sent.input.header = other

\* C2: an identifier never stored by an analyze request is never found by
\* getAnalysis, and a chat request carrying it is answered 404 without
\* generateSummary or handleFollowUp being called.
C2_NeverStored ==
    /\ \A id \in SessionIds \ DOMAIN created : ~getAnalysis(data, now, id).found
    /\ \A slot \in InFlight :
          slot.kind = "chat" => slot.input.header \in DOMAIN created
    /\ (sent.kind = "chat" /\ sent.input.header \in SessionIds \ DOMAIN created)
       => /\ sent.res.status = 404
          /\ ~Called(sent, "generateSummary")
          /\ ~Called(sent, "handleFollowUp")

\* A chat request with a never-stored identifier was answered while another
\* session is live.
C2_Witness ==
    /\ sent.kind = "chat"
    /\ sent.input.header \in SessionIds \ DOMAIN created
    /\ sent.res.status = 404
    /\ \E id \in DOMAIN created : now < ExpiresAt(id)

\* C3: boundary expiry.  A session created at time T is returned by
\* getAnalysis at every time before T + TTL and at no time after T + TTL,
\* whether or not the sweep has removed the record yet.
C3_BoundaryExpiry ==
    \A id \in DOMAIN created :
        /\ now < ExpiresAt(id) => getAnalysis(data, now, id).found
        /\ now > ExpiresAt(id) => ~getAnalysis(data, now, id).found

\* A record is past its TTL and the sweep has not removed it yet.
C3_Witness ==
    \E id \in DOMAIN created : now > ExpiresAt(id) /\ id \in DOMAIN data

\* C4: fixed TTL.  No step, a lookup by getAnalysis, hasSession or /api/chat
\* included, moves a record's expiry time away from creation time + TTL, and
\* no chat request finds its session at a time after creation time + TTL.
C4_FixedTTL ==
    [][ /\ \A id \in DOMAIN data' : data'[id].t = created'[id].at + stdTTL * 1000
        /\ \A id \in DOMAIN data \cap DOMAIN data' : data'[id].t = data[id].t
        /\ \A r \in Requests :
              (req[r].pc = "idle" /\ req'[r].kind = "chat")
              => now <= created[req'[r].sessionId].at + stdTTL * 1000 ]_vars

\* A chat request has read a live session some time after its creation, and
\* the record still expires at creation time + TTL.
C4_Witness ==
    \E r \in Requests :
        /\ req[r].kind = "chat"
        /\ req[r].sessionId \in DOMAIN data
        /\ now > created[req[r].sessionId].at
        /\ data[req[r].sessionId].t = ExpiresAt(req[r].sessionId)

\* The answers of the vision model that are a failure: the call fails, the
\* answer has no content, it is not parseable, or it has the error flag or an
\* error field set.
VisionFailure(answer) ==
    \/ answer.call = "reject"
    \/ answer.choices = 0
    \/ ~answer.hasContent
    \/ answer.content.text.j \in {"garbage", "null"}
    \/ answer.content.text.isError
    \/ answer.content.text.error # Undefined

\* C5: when the analysis gateway fails, /api/analyze creates no session (the
\* store is unchanged), does not call generateSummary, and its response
\* carries no sessionId; no request goes on to a session after such an answer.
C5_NoSessionOnFailure ==
    [][ /\ ( /\ sent'.kind = "analyze"
             /\ Called(sent', "analyzeImage")
             /\ (sent'.got = <<>> \/ VisionFailure(sent'.got[1])) )
           => /\ data' = data
              /\ created' = created
              /\ ~Called(sent', "storeAnalysis")
              /\ ~Called(sent', "generateSummary")
              /\ "sessionId" \notin DOMAIN sent'.res.body
              /\ ~sent'.res.body.success
        /\ \A r \in Requests :
              (req'[r].kind = "analyze" /\ req'[r].got # <<>>)
              => ~VisionFailure(req'[r].got[1]) ]_vars

\* The vision model answered with an error field but isError false, sessions
\* exist, and the request was answered.
C5_Witness ==
    /\ sent.kind = "analyze"
    /\ sent.got # <<>>
    /\ sent.got[1].call = "ok" /\ sent.got[1].choices > 0 /\ sent.got[1].hasContent
    /\ sent.got[1].content.text.j = "object"
    /\ ~sent.got[1].content.text.isError
    /\ sent.got[1].content.text.error # Undefined
    /\ DOMAIN data # {}

\* The answers of the language model with which generateSummary fails or
\* yields an empty summary.
SummarizeFailure(answer) ==
    \/ answer.call = "reject"
    \/ answer.choices = 0
    \/ Trim(answer.content) = <<>>

\* C6: given a successful analysis and a failing summarize call, /api/analyze
\* answers success:true with a sessionId and a non-empty summary that contains
\* the product name whenever the analysis has a non-empty productName.
C6_FallbackSummary ==
    (sent.kind = "analyze" /\ Len(sent.got) = 2 /\ SummarizeFailure(sent.got[2]))
    => /\ sent.res.status = 200
       /\ sent.res.body.success
       /\ sent.res.body.sessionId \in SessionIds
       /\ sent.res.body.summary # <<>>
       /\ sent.res.body.analysis.productName # ""
          => Includes(sent.res.body.summary, sent.res.body.analysis.productName)

\* C7: a chat request without X-Session-ID header is answered 400, before any
\* lookup in the store and before any call of generateSummary or
\* handleFollowUp.
C7_MissingHeader ==
    /\ (sent.kind = "chat" /\ sent.input.header = Undefined)
       => /\ sent.res.status = 400
          /\ sent.calls = <<>>
    /\ \A slot \in InFlight :
          slot.kind = "chat" => slot.input.header # Undefined

\* A chat request without the header was answered while a session is live.
C7_Witness ==
    /\ sent.kind = "chat"
    /\ sent.input.header = Undefined
    /\ sent.res.status = 400
    /\ \E id \in DOMAIN created : now < ExpiresAt(id)

\* An identifier resolves when it was stored and its TTL has not elapsed.
Resolves(id) == id \in DOMAIN created /\ now <= ExpiresAt(id)

\* C8: a chat request whose X-Session-ID does not resolve (never stored, or
\* expired) is answered 404, calls neither generateSummary nor handleFollowUp,
\* and leaves the store as it is: what getAnalysis returns is the same for
\* every identifier, and no record is added or altered.
C8_SessionExpired ==
    [][ /\ ( /\ sent'.kind = "chat"
             /\ req[sent'.r].pc = "idle"
             /\ ~Falsy(sent'.input.header)
             /\ ~Resolves(sent'.input.header) )
           => /\ sent'.res.status = 404
              /\ ~Called(sent', "generateSummary")
              /\ ~Called(sent', "handleFollowUp")
              /\ \A id \in SessionIds :
                    getAnalysis(data', now', id) = getAnalysis(data, now, id)
              /\ \A id \in DOMAIN data' : id \in DOMAIN data /\ data'[id] = data[id]
        /\ \A r \in Requests :
              (req[r].pc = "idle" /\ req'[r].kind = "chat")
              => Resolves(req'[r].input.header) ]_vars

\* A chat request on a session that has expired was answered 404.
C8_Witness ==
    /\ sent.kind = "chat"
    /\ sent.input.header \in DOMAIN created
    /\ now > ExpiresAt(sent.input.header)
    /\ sent.res.status = 404

\* C9: a /api/tts request whose voice is text but none of the enumerated
\* voices, in whatever case, makes no outbound speech-synthesis call and is
\* answered with a validation error.
C9_VoiceValidated ==
    \A slot \in InFlight \cup {sent} :
        ( /\ slot.kind = "tts"
          /\ ~Falsy(slot.input.text)
          /\ slot.input.voice # NonString
          /\ ToLowerCase(slot.input.voice) \notin validVoices )
        => /\ ~Called(slot, "audio.speech.create")
           /\ slot = sent /\ sent.res.status = 400

\* The answer the prompt asks for when the image is no readable food label.
NotFoodLabel(answer) ==
    /\ answer.call = "ok" /\ answer.choices > 0 /\ answer.hasContent
    /\ answer.content.open = "" /\ answer.content.close = ""
    /\ answer.content.text.j = "object"
    /\ answer.content.text.isError

\* C10: when the vision model answers "not a readable food label",
\* /api/analyze reports it with a status other than 500, the status of
\* upstream failures.
C10_SemanticFailureStatus ==
    (sent.kind = "analyze" /\ sent.got # <<>> /\ NotFoodLabel(sent.got[1]))
    => /\ ~sent.res.body.success
       /\ sent.res.status # 500

\* The answers of the language model with which generateSummary and
\* handleFollowUp return a failure.
ConversationFailure(answer) == answer.call = "reject" \/ answer.choices = 0

\* C11: asymmetric fallback.  On /api/chat with a session that was found, a
\* failure of generateSummary or of handleFollowUp is answered 500 with
\* success false; every 200 of /api/chat carries the text the gateway
\* returned, never a summary built locally.
C11_AsymmetricFallback ==
    (sent.kind = "chat" /\ sent.got # <<>>)
    => /\ sent.res.status \in {200, 500}
       /\ ConversationFailure(sent.got[1])
          => /\ sent.res.status = 500
             /\ ~sent.res.body.success
       /\ sent.res.status = 200
          => /\ ~ConversationFailure(sent.got[1])
             /\ sent.res.body.success
             /\ sent.res.body.response = Trim(sent.got[1].content)

\* A summary request on a live session whose outbound call was rejected has
\* been answered 500.
C11_Witness ==
    /\ sent.kind = "chat"
    /\ Called(sent, "generateSummary")
    /\ sent.got # <<>> /\ sent.got[1].call = "reject"
    /\ sent.res.status = 500
    /\ Resolves(sent.input.header)

\* C12: session immutability.  In every step, those of /api/chat (summary or
\* follow-up, succeeding or failing) and of /api/tts included, a stored record
\* keeps the analysis and the creation timestamp it was stored with; the only
\* change it undergoes is its removal once it has expired.
C12_SessionImmutable ==
    [][ \A id \in DOMAIN data :
          IF id \in DOMAIN data'
          THEN /\ data'[id].analysis = data[id].analysis
               /\ data'[id].timestamp = data[id].timestamp
               /\ data'[id].analysis = created[id].analysis
               /\ data'[id].timestamp = created[id].at
          ELSE Expired(data[id], now') ]_vars

\* A follow-up on a session was answered some time after the session was
\* created, and the record is as it was stored.
C12_Witness ==
    /\ sent.kind = "chat"
    /\ Called(sent, "handleFollowUp")
    /\ sent.res.status = 200
    /\ sent.input.header \in DOMAIN data
    /\ now > created[sent.input.header].at
    /\ data[sent.input.header].timestamp = created[sent.input.header].at
    /\ data[sent.input.header].analysis = created[sent.input.header].analysis

\* C13: session isolation under concurrency.  Under every interleaving of
\* /api/analyze and /api/chat requests in flight together: no step alters or
\* replaces a live record (no create overwrites the session of another
\* request); the identifier an analyze request holds and returns maps to the
\* analysis that request got from analyzeImage, and no other analyze request
\* holds it; the analysis a chat request hands to generateSummary or
\* handleFollowUp is the one stored under the identifier it carried.
C13_SessionIsolation ==
    [][ /\ \A id \in DOMAIN data :
              ~Expired(data[id], now') => id \in DOMAIN data' /\ data'[id] = data[id]
        /\ \A r \in DOMAIN req' :
              /\ (req'[r].kind = "analyze" /\ req'[r].pc = "awaitSummary")
                 => /\ req'[r].sessionId \in DOMAIN data'
                    /\ data'[req'[r].sessionId].analysis = req'[r].analysis
                    /\ req'[r].analysis = AnalyzeImageResult(req'[r].got[1]).analysis
                    /\ \A q \in DOMAIN req' \ {r} :
                          req'[q].kind = "analyze"
                          => req'[q].sessionId # req'[r].sessionId
              /\ (req'[r].kind = "chat" /\ req'[r].pc # "idle")
                 => /\ req'[r].input.header \in DOMAIN data'
                    /\ req'[r].analysis = data'[req'[r].input.header].analysis
        /\ (sent'.kind = "analyze" /\ sent'.res.status = 200)
           => /\ sent'.res.body.sessionId \in DOMAIN data'
              /\ data'[sent'.res.body.sessionId].analysis = sent'.res.body.analysis
              /\ sent'.res.body.analysis = AnalyzeImageResult(sent'.got[1]).analysis
      ]_vars

\* An analyze request was answered with its session while a chat request on
\* another session, holding another analysis, awaits its gateway call.
C13_Witness ==
    /\ sent.kind = "analyze" /\ sent.res.status = 200
    /\ \E r \in DOMAIN req :
          /\ req[r].kind = "chat" /\ req[r].pc # "idle"
          /\ req[r].input.header # sent.res.body.sessionId
          /\ req[r].analysis # sent.res.body.analysis
          /\ r # sent.r

\* How often op occurs in a log of calls.
RECURSIVE Count(_, _)
Count(calls, op) ==
    IF calls = <<>> THEN 0
    ELSE (IF Head(calls) = op THEN 1 ELSE 0) + Count(Tail(calls), op)

\* C14: no automatic retry.  Within one request each gateway operation is
\* called at most once and makes at most one outbound call: /api/analyze
\* calls analyzeImage once and then generateSummary at most once, /api/chat
\* with a session that was found calls exactly one of generateSummary and
\* handleFollowUp, once, and /api/tts calls generateSpeech at most once; a
\* request gets no more answers than it made outbound calls, so a failed
\* outbound call is not issued again.
C14_NoRetry ==
    \A slot \in InFlight \cup {sent} :
        LET completions == Count(slot.calls, "chat.completions.create")
            speeches == Count(slot.calls, "audio.speech.create")
            analyses == Count(slot.calls, "analyzeImage")
            summaries == Count(slot.calls, "generateSummary")
            followUps == Count(slot.calls, "handleFollowUp")
            synths == Count(slot.calls, "generateSpeech")
        IN  /\ analyses <= 1 /\ summaries <= 1 /\ followUps <= 1 /\ synths <= 1
            /\ completions <= analyses + summaries + followUps
            /\ speeches <= synths
            /\ Len(slot.got) <= completions + speeches
            /\ slot.kind = "analyze"
               => /\ followUps = 0 /\ synths = 0
                  /\ summaries <= analyses
            /\ slot.kind = "chat"
               => /\ analyses = 0 /\ synths = 0
                  /\ summaries + followUps <= 1
                  /\ ("res" \in DOMAIN slot => slot.res.status \in {200, 500})
                     => summaries + followUps = 1 /\ completions = 1
            /\ slot.kind = "tts"
               => analyses = 0 /\ summaries = 0 /\ followUps = 0

\* A follow-up whose outbound call was rejected has been answered 500 after
\* that one call.
C14_Witness ==
    /\ sent.kind = "chat"
    /\ Called(sent, "handleFollowUp")
    /\ sent.got = << [call |-> "reject"] >>
    /\ Count(sent.calls, "chat.completions.create") = 1
    /\ sent.res.status = 500

\* The uploads that reach the handler of /api/analyze without a file: no file
\* was sent, or the upload middleware rejects the one sent.
NoAcceptedFile(file) ==
    \/ ~file.present
    \/ file.mimetype \notin SUPPORTED_IMAGE_TYPES
    \/ file.size > fileSize

\* C15: input validation precedes upstream calls.  /api/analyze without an
\* accepted uploaded file and /api/tts with missing or empty text are answered
\* with a failure in the step they arrive, without any call of a gateway and
\* without a session being created; no such request is ever in flight.
C15_ValidationFirst ==
    [][ /\ \A r \in Requests :
              /\ req'[r].kind = "analyze" => ~NoAcceptedFile(req'[r].input)
              /\ req'[r].kind = "tts" => ~Falsy(req'[r].input.text)
        /\ ( \/ sent'.kind = "analyze" /\ NoAcceptedFile(sent'.input)
             \/ sent'.kind = "tts" /\ Falsy(sent'.input.text) )
           => /\ req[sent'.r].pc = "idle"
              /\ sent'.res.status \in {400, 500}
              /\ "error" \in DOMAIN sent'.res.body
              /\ sent'.kind = "analyze" => ~sent'.res.body.success
              /\ sent'.calls = <<>>
              /\ data' = data
              /\ created' = created ]_vars

\* An upload of an unsupported type was answered with a failure while a
\* session exists.
C15_Witness ==
    /\ sent.kind = "analyze"
    /\ sent.input.present
    /\ sent.input.mimetype \notin SUPPORTED_IMAGE_TYPES
    /\ sent.res.status = 500
    /\ sent.calls = <<>>
    /\ DOMAIN data # {}

\* C16: gateways never throw.  Whatever the outbound call answers, each
\* gateway operation the handlers called has returned a result with an
\* explicit success field and has raised no exception.
C16_GatewaysNeverThrow ==
    /\ (sent.kind = "analyze" /\ sent.got # <<>>)
       => /\ "success" \in DOMAIN AnalyzeImageResult(sent.got[1])
          /\ Len(sent.got) = 2 => "success" \in DOMAIN generateSummary(sent.got[2])
    /\ (sent.kind = "chat" /\ sent.got # <<>>)
       => /\ Called(sent, "generateSummary")
             => "success" \in DOMAIN generateSummary(sent.got[1])
          /\ Called(sent, "handleFollowUp")
             => "success" \in DOMAIN handleFollowUp(sent.got[1])
    /\ (sent.kind = "tts" /\ sent.got # <<>>)
       => "raised" \notin DOMAIN generateSpeech(sent.got[1])

\* C17: whenever /api/analyze answers success, the sessionId of the response
\* resolves at that moment: getAnalysis returns the stored analysis, however
\* long the summarize call took.
C17_SessionValidAtResponse ==
    (sent.kind = "analyze" /\ sent.res.status = 200)
    => /\ getAnalysis(data, now, sent.res.body.sessionId).found
       /\ getAnalysis(data, now, sent.res.body.sessionId).analysis
            = sent.res.body.analysis

\* C18: no resurrection.  An identifier that was stored and no longer
\* resolves does not resolve after any step, whatever request takes it; a step
\* of a chat request stores nothing and adds no record to the cache.
C18_NoResurrection ==
    [][ /\ \A id \in DOMAIN created :
              ~getAnalysis(data, now, id).found
              => ~getAnalysis(data', now', id).found
        /\ ( \/ sent'.kind = "chat"
             \/ \E r \in Requests : req'[r].kind = "chat" /\ req'[r] # req[r] )
           => /\ created' = created
              /\ \A id \in DOMAIN data' : id \in DOMAIN data /\ data'[id] = data[id]
      ]_vars

\* A chat request on a session that expired was answered 404 after another
\* session was stored past that expiry.
C18_Witness ==
    /\ sent.kind = "chat"
    /\ sent.res.status = 404
    /\ sent.input.header \in DOMAIN created
    /\ \E other \in DOMAIN created :
          /\ created[other].at > ExpiresAt(sent.input.header)
          /\ getAnalysis(data, now, other).found

\* The chat requests that got past the lookup of their session.
ChatDispatched == {slot \in InFlight \cup {sent} :
                     slot.kind = "chat" /\ Len(slot.calls) > 1}

\* C19 as stated: every chat request with isFollowUp set, on a session that
\* was found, calls handleFollowUp and is answered with isFollowUp true;
\* generateSummary is called, and isFollowUp false answered, only for requests
\* with isFollowUp not set.
C19_ChatDispatch ==
    \A slot \in ChatDispatched :
        /\ slot.input.isFollowUp
           => /\ Called(slot, "handleFollowUp")
              /\ ~Called(slot, "generateSummary")
        /\ Called(slot, "generateSummary") => ~slot.input.isFollowUp
        /\ (slot = sent /\ sent.res.status = 200)
           => sent.res.body.isFollowUp = sent.input.isFollowUp

\* C19 amended: a chat request on a session that was found calls
\* handleFollowUp, and is answered with its result and isFollowUp true,
\* exactly when isFollowUp is set and the message is not empty; every other
\* request, one with isFollowUp set and no message included, calls
\* generateSummary and is answered with its result and isFollowUp false.
C19_ChatDispatchAmended ==
    \A slot \in ChatDispatched :
        LET question == slot.input.isFollowUp /\ slot.input.message # ""
        IN  /\ Called(slot, "handleFollowUp") <=> question
            /\ Called(slot, "generateSummary") <=> ~question
            /\ (slot = sent /\ sent.res.status = 200)
               => /\ sent.res.body.isFollowUp = question
                  /\ sent.res.body.response =
                       IF question THEN handleFollowUp(sent.got[1]).response
                       ELSE generateSummary(sent.got[1]).summary

\* A request with isFollowUp set and an empty message was answered with a
\* summary and isFollowUp false.
C19_Witness ==
    /\ sent.kind = "chat"
    /\ sent.input.isFollowUp /\ sent.input.message = ""
    /\ sent.res.status = 200
    /\ ~sent.res.body.isFollowUp
    /\ Called(sent, "generateSummary")

\* C20: no orphan session.  A session is stored only by an analyze request
\* that has called no generateSummary yet and goes on to call it; a request
\* that has stored a session is answered 200 with success true and the
\* identifier it stored; a request that is answered with a failure has stored
\* none.
C20_NoOrphanSession ==
    [][ /\ \A id \in DOMAIN created' \ DOMAIN created :
              \E r \in Requests :
                  /\ req[r].pc = "awaitAnalyze"
                  /\ ~Called(req[r], "generateSummary")
                  /\ req'[r].pc = "awaitSummary"
                  /\ req'[r].sessionId = id
                  /\ id \in DOMAIN data'
        /\ \A r \in Requests :
              (req'[r].kind = "analyze" /\ Called(req'[r], "storeAnalysis"))
              => /\ req'[r].pc = "awaitSummary"
                 /\ req'[r].sessionId \in DOMAIN created'
        /\ sent'.kind = "analyze"
           => IF Called(sent', "storeAnalysis")
              THEN /\ sent'.res.status = 200
                   /\ sent'.res.body.success
                   /\ sent'.res.body.sessionId = req[sent'.r].sessionId
                   /\ sent'.res.body.sessionId \in DOMAIN created
              ELSE /\ sent'.res.status # 200
                   /\ ~sent'.res.body.success
                   /\ "sessionId" \notin DOMAIN sent'.res.body
                   /\ created' = created
                   /\ data' = data ]_vars

\* An analyze request whose summarize call was rejected was answered 200 with
\* the identifier of the session it stored.
C20_Witness ==
    /\ sent.kind = "analyze"
    /\ Len(sent.got) = 2 /\ sent.got[2].call = "reject"
    /\ sent.res.status = 200
    /\ sent.res.body.sessionId \in DOMAIN data

\* C21: every request gets exactly one response.  A step sends a response
\* for a request only when the request arrives in it or was in flight, and the
\* request is over after it (no second send); a request in flight ends only
\* in a step that sends its response (never zero); and, every outbound call
\* returning, every request in flight is eventually answered.
C21_ExactlyOneResponse ==
    /\ [][ \A r \in Requests :
              /\ sent'.r = r
                 => /\ req'[r].pc = "idle"
                    /\ sent'.kind \in {"analyze", "chat", "tts"}
                    /\ sent'.res.status \in {200, 400, 404, 500}
                    /\ req[r].pc # "idle" => sent'.kind = req[r].kind
              /\ (req[r].pc # "idle" /\ req'[r].pc = "idle") => sent'.r = r
              /\ (req[r].pc # "idle" /\ req'[r].pc # "idle") => sent'.r # r ]_vars
    /\ \A r \in Requests :
          (req[r].pc # "idle") ~> (sent.r = r /\ sent.res.status # 0)

\* An analyze request was answered after both of its outbound calls, some
\* time after it stored its session.
C21_Witness ==
    /\ sent.kind = "analyze"
    /\ Len(sent.got) = 2
    /\ sent.res.status = 200
    /\ now > created[sent.res.body.sessionId].at

\* C22: in every state and for every identifier, hasSession is true exactly
\* when getAnalysis returns a record, which is exactly when the identifier
\* was stored and its TTL has not elapsed (the time is not past creation time
\* plus TTL), whether or not the sweep has run.
C22_HasSessionIffFound ==
    \A id \in SessionIds :
        /\ hasSession(data, now, id) <=> getAnalysis(data, now, id).found
        /\ getAnalysis(data, now, id).found
           <=> (id \in DOMAIN created /\ now <= ExpiresAt(id))

\* One session is live while another, past its TTL, is still in the cache.
C22_Witness ==
    \E id \in DOMAIN data, other \in DOMAIN data :
        /\ now > ExpiresAt(id)
        /\ ~hasSession(data, now, id)
        /\ hasSession(data, now, other)
        /\ getAnalysis(data, now, other).found

====
